---- MODULE Spec2Model ----
(***************************************************************************)
(* A model of the directory node of memoryfs (dir.go): a tree of directory *)
(* and file nodes addressed by slash-separated paths.                      *)
(*                                                                         *)
(* Strings are sequences of byte values, so that strings.Split,            *)
(* strings.Join and the byte-wise order used by ReadDir are computed, not  *)
(* assumed.  Nodes live in two heaps (dnode, fnode) and are named by their *)
(* index, which plays the role of the Go pointer.                          *)
(***************************************************************************)
EXTENDS Integers, Sequences, FiniteSets, TLC

VARIABLES dnode, fnode, now, nops, last, th, tree0

vars == <<dnode, fnode, now, nops, last, th, tree0>>

(***************************************************************************)
(* Bounds of the model.                                                    *)
(***************************************************************************)
\* longest path, in segments, that a call is given
MaxDepth == 2
\* number of calls in one run
MaxOps == 3
\* number of threads of a concurrent run, and of calls each of them makes
NThreads == 2
MaxThreadOps == 1

(***************************************************************************)
(* Strings.                                                                *)
(***************************************************************************)
\* var separator = "/"
separator == <<47>>

\* the empty string, ".", "a", "b"
StrEmpty == <<>>
StrDot == <<46>>
SegNames == {<<>>, <<97>>, <<98>>}

Max(a, b) == IF a > b THEN a ELSE b

\* position of the first separator of s at or after i, 0 when there is none
RECURSIVE IndexFrom(_, _)
IndexFrom(s, i) ==
    IF i > Len(s) THEN 0
    ELSE IF <<s[i]>> = separator THEN i
    ELSE IndexFrom(s, i + 1)

\* strings.Split(s, separator): always at least one part
RECURSIVE Split(_)
Split(s) ==
    LET i == IndexFrom(s, 1)
    IN IF i = 0 THEN <<s>>
       ELSE <<SubSeq(s, 1, i - 1)>> \o Split(SubSeq(s, i + 1, Len(s)))

\* strings.Join(parts, separator)
RECURSIVE Join(_)
Join(parts) ==
    IF Len(parts) = 0 THEN StrEmpty
    ELSE IF Len(parts) = 1 THEN parts[1]
    ELSE parts[1] \o separator \o Join(Tail(parts))

\* Go's s < t on strings: byte-wise lexicographic
RECURSIVE StrLess(_, _)
StrLess(s, t) ==
    IF Len(t) = 0 THEN FALSE
    ELSE IF Len(s) = 0 THEN TRUE
    ELSE IF s[1] < t[1] THEN TRUE
    ELSE IF s[1] > t[1] THEN FALSE
    ELSE StrLess(Tail(s), Tail(t))

(***************************************************************************)
(* Inputs.                                                                 *)
(***************************************************************************)
RECURSIVE SegSeqs(_)
SegSeqs(n) ==
    IF n = 0 THEN {<<>>}
    ELSE {<<>>} \cup {<<x>> \o s : x \in SegNames, s \in SegSeqs(n - 1)}

\* the paths given to the calls: "." and every path of at most MaxDepth
\* segments drawn from SegNames (so "", "a", "a/b", "/a", "a/", "//", ...)
Paths == {StrDot} \cup {Join(s) : s \in SegSeqs(MaxDepth) \ {<<>>}}

Payloads == {<<1>>, <<2, 3>>}

\* 0700 and 0755
DirPerms == {448, 493}

\* 0644, and a value outside the nine permission bits (01000)
FilePerms == {420, 512}

(***************************************************************************)
(* Errors.                                                                 *)
(***************************************************************************)
Nil == "nil"
ErrNotExist == "ErrNotExist"
ErrExist == "ErrExist"
ErrInvalidMode == "ErrInvalidMode"

\* os.IsNotExist
IsNotExist(err) == err = ErrNotExist

(***************************************************************************)
(* Nodes.  A heap value h is [d |-> dnode, f |-> fnode, now |-> now].      *)
(***************************************************************************)
Root == 1

EmptyMap == <<>>

Heap == [d |-> dnode, f |-> fnode, now |-> now]

\* the minimum capacity of a file's buffer
bufferSize == 256

\* the dir literal of MkdirAll
NewDir(name, t, perm) ==
    [info |-> [name |-> name, size |-> 256, modified |-> t, isDir |-> TRUE,
               mode |-> perm],
     dirs |-> EmptyMap,
     files |-> EmptyMap]

\* the file literal of WriteFile
NewFile(name, buffer, t, perm) ==
    [info |-> [name |-> name, size |-> Len(buffer.bytes), modified |-> t,
               isDir |-> FALSE, mode |-> perm],
     content |-> buffer]

\* _, ok := f.files[name]
HasFile(h, f, name) == name \in DOMAIN h.d[f].files

\* _, ok := f.dirs[name]
HasDir(h, f, name) == name \in DOMAIN h.d[f].dirs

(***************************************************************************)
(* The file node (file.go is not part of the sources at hand; these follow *)
(* the documented contract of the file node).                              *)
(***************************************************************************)
\* the modes overwrite accepts
ValidMode(perm) == perm \in 0..511

\* existing.overwrite(buffer, perm): replaces the buffer and refreshes size,
\* modification time and mode; rejects an invalid mode and then changes
\* nothing
overwrite(h, x, buffer, perm) ==
    IF ~ValidMode(perm) THEN [heap |-> h, err |-> ErrInvalidMode]
    ELSE [heap |-> [h EXCEPT !.f[x].content = buffer,
                             !.f[x].info.size = Len(buffer.bytes),
                             !.f[x].info.modified = h.now,
                             !.f[x].info.mode = perm,
                             !.now = h.now + 1],
          err |-> Nil]

\* f.openR(): a read handle with its own cursor over the current content
openR(h, x) ==
    [kind |-> "file", node |-> x, content |-> h.f[x].content.bytes, pos |-> 0]

\* file.Stat() and dir.Stat(): a copy of the node's metadata
FileStat(h, x) == h.f[x].info

Stat(h, d) == h.d[d].info

\* what Open returns for a directory: the node itself
DirHandle(d) == [kind |-> "dir", node |-> d, content |-> <<>>, pos |-> 0]

NoHandle == [kind |-> "none", node |-> 0, content |-> <<>>, pos |-> 0]

(***************************************************************************)
(* MkdirAll.                                                               *)
(***************************************************************************)
\* the dir literal stored without looking for an existing child
MkdirLockedAlwaysNew(h, f, name, perm) ==
    LET h1 == [h EXCEPT !.d = [Append(h.d, NewDir(name, h.now, perm))
                                  EXCEPT ![f].dirs =
                                      (name :> (Len(h.d) + 1)) @@ h.d[f].dirs],
                        !.now = h.now + 1]
    IN [h1 EXCEPT !.d[f].info.modified = h1.now, !.now = h1.now + 1]

\* a version that stamps f only when it created the child
MkdirLockedStampIfNew(h, f, name, perm) ==
    IF HasDir(h, f, name) THEN h
    ELSE LET h1 == [h EXCEPT !.d = [Append(h.d, NewDir(name, h.now, perm))
                                       EXCEPT ![f].dirs =
                                           (name :> (Len(h.d) + 1)) @@ h.d[f].dirs],
                             !.now = h.now + 1]
         IN [h1 EXCEPT !.d[f].info.modified = h1.now, !.now = h1.now + 1]

\* lines 135-150, under f.Lock(): create the child when absent, then stamp f
MkdirLocked(h, f, name, perm) ==
    LET h1 == IF HasDir(h, f, name) THEN h
              ELSE [h EXCEPT !.d = [Append(h.d, NewDir(name, h.now, perm))
                                      EXCEPT ![f].dirs =
                                          (name :> (Len(h.d) + 1)) @@ h.d[f].dirs],
                             !.now = h.now + 1]
    IN [h1 EXCEPT !.d[f].info.modified = h1.now, !.now = h1.now + 1]

\* a MkdirAll that stops after the first segment
MkdirAllFirstOnly(h, f, path, perm) ==
    LET parts == Split(path)
    IN IF HasFile(h, f, parts[1]) THEN [heap |-> h, err |-> ErrExist]
       ELSE [heap |-> MkdirLocked(h, f, parts[1], perm), err |-> Nil]

\* a MkdirAll without the check for a file of the name
RECURSIVE MkdirAllNoFileCheck(_, _, _, _)
MkdirAllNoFileCheck(h, f, path, perm) ==
    LET parts == Split(path)
        h1 == MkdirLocked(h, f, parts[1], perm)
    IN IF Len(parts) = 1 THEN [heap |-> h1, err |-> Nil]
       ELSE MkdirAllNoFileCheck(h1, h1.d[f].dirs[parts[1]], Join(Tail(parts)), perm)

\* a MkdirAll that undoes what it did when a deeper level fails
RECURSIVE MkdirAllUndoing(_, _, _, _)
MkdirAllUndoing(h, f, path, perm) ==
    LET parts == Split(path)
    IN IF HasFile(h, f, parts[1]) THEN [heap |-> h, err |-> ErrExist]
       ELSE LET h1 == MkdirLocked(h, f, parts[1], perm)
            IN IF Len(parts) = 1 THEN [heap |-> h1, err |-> Nil]
               ELSE LET r == MkdirAllUndoing(h1, h1.d[f].dirs[parts[1]],
                                             Join(Tail(parts)), perm)
                    IN IF r.err # Nil THEN [heap |-> h, err |-> r.err] ELSE r

RECURSIVE MkdirAll(_, _, _, _)
MkdirAll(h, f, path, perm) ==
    LET parts == Split(path)
    IN IF HasFile(h, f, parts[1]) THEN [heap |-> h, err |-> ErrExist]
       ELSE LET h1 == MkdirLocked(h, f, parts[1], perm)
            IN IF Len(parts) = 1 THEN [heap |-> h1, err |-> Nil]
               ELSE MkdirAll(h1, h1.d[f].dirs[parts[1]], Join(Tail(parts)), perm)

(***************************************************************************)
(* WriteFile.                                                              *)
(***************************************************************************)
\* a buffer made with length 0, into which copy() copies nothing
MakeBufferEmpty(data) == [bytes |-> <<>>, cap |-> Max(bufferSize, Len(data))]

\* lines 165-170: the copy of data, with capacity max(bufferSize, len(data))
MakeBuffer(data) == [bytes |-> data, cap |-> Max(bufferSize, Len(data))]

\* the file literal stored without looking for an existing file
WriteLockedAlwaysNew(h, f, name, data, perm) ==
    [heap |-> [h EXCEPT !.f = Append(h.f, NewFile(name, MakeBuffer(data), h.now, perm)),
                        !.d[f].files = (name :> (Len(h.f) + 1)) @@ h.d[f].files,
                        !.now = h.now + 1],
     err |-> Nil]

\* a version that also stamps the directory it writes into
WriteLockedStampsDir(h, f, name, data, perm) ==
    LET buffer == MakeBuffer(data)
        w == IF HasFile(h, f, name)
             THEN overwrite(h, h.d[f].files[name], buffer, perm)
             ELSE [heap |-> [h EXCEPT !.f = Append(h.f, NewFile(name, buffer, h.now, perm)),
                                      !.d[f].files = (name :> (Len(h.f) + 1)) @@ h.d[f].files,
                                      !.now = h.now + 1],
                   err |-> Nil]
    IN [w EXCEPT !.heap.d[f].info.modified = w.heap.now, !.heap.now = w.heap.now + 1]

\* lines 171-189, under f.Lock(): overwrite the file or create it
WriteLocked(h, f, name, data, perm) ==
    LET buffer == MakeBuffer(data)
    IN IF HasFile(h, f, name)
       THEN overwrite(h, h.d[f].files[name], buffer, perm)
       ELSE [heap |-> [h EXCEPT !.f = Append(h.f, NewFile(name, buffer, h.now, perm)),
                                !.d[f].files = (name :> (Len(h.f) + 1)) @@ h.d[f].files,
                                !.now = h.now + 1],
             err |-> Nil]

\* a WriteFile that makes the directories it does not find
RECURSIVE WriteFileMkdirs(_, _, _, _, _)
WriteFileMkdirs(h, f, path, data, perm) ==
    LET parts == Split(path)
    IN IF Len(parts) = 1 THEN WriteLocked(h, f, parts[1], data, perm)
       ELSE LET h1 == IF HasDir(h, f, parts[1]) THEN h
                      ELSE MkdirLocked(h, f, parts[1], perm)
            IN WriteFileMkdirs(h1, h1.d[f].dirs[parts[1]], Join(Tail(parts)), data, perm)

RECURSIVE WriteFile(_, _, _, _, _)
WriteFile(h, f, path, data, perm) ==
    LET parts == Split(path)
    IN IF Len(parts) = 1 THEN WriteLocked(h, f, parts[1], data, perm)
       ELSE IF ~HasDir(h, f, parts[1]) THEN [heap |-> h, err |-> ErrNotExist]
       ELSE WriteFile(h, h.d[f].dirs[parts[1]], Join(Tail(parts)), data, perm)

(***************************************************************************)
(* Path resolution and Open.                                               *)
(***************************************************************************)
\* a getDir that returns the receiver for a name it does not find
RECURSIVE getDirMissIsSelf(_, _, _)
getDirMissIsSelf(h, d, name) ==
    IF name = StrEmpty THEN [node |-> d, err |-> Nil]
    ELSE LET parts == Split(name)
         IN IF HasDir(h, d, parts[1])
            THEN getDirMissIsSelf(h, h.d[d].dirs[parts[1]], Join(Tail(parts)))
            ELSE [node |-> d, err |-> Nil]

RECURSIVE getDir(_, _, _)
getDir(h, d, name) ==
    IF name = StrEmpty THEN [node |-> d, err |-> Nil]
    ELSE LET parts == Split(name)
         IN IF HasDir(h, d, parts[1])
            THEN getDir(h, h.d[d].dirs[parts[1]], Join(Tail(parts)))
            ELSE [node |-> 0, err |-> ErrNotExist]

RECURSIVE getFile(_, _, _)
getFile(h, d, name) ==
    LET parts == Split(name)
    IN IF Len(parts) = 1
       THEN IF HasFile(h, d, name) THEN [node |-> h.d[d].files[name], err |-> Nil]
            ELSE [node |-> 0, err |-> ErrNotExist]
       ELSE LET sub == getDir(h, d, parts[1])
            IN IF sub.err # Nil THEN [node |-> 0, err |-> sub.err]
               ELSE getFile(h, sub.node, Join(Tail(parts)))

\* an Open that looks for the directory before the file
OpenDirFirst(h, d, name) ==
    IF name = StrEmpty \/ name = StrDot THEN [file |-> DirHandle(d), err |-> Nil]
    ELSE LET g == getDir(h, d, name)
         IN IF g.err = Nil THEN [file |-> DirHandle(g.node), err |-> Nil]
            ELSE LET f == getFile(h, d, name)
                 IN IF f.err = Nil THEN [file |-> openR(h, f.node), err |-> Nil]
                    ELSE [file |-> NoHandle, err |-> ErrNotExist]

Open(h, d, name) ==
    IF name = StrEmpty \/ name = StrDot THEN [file |-> DirHandle(d), err |-> Nil]
    ELSE LET f == getFile(h, d, name)
         IN IF f.err = Nil THEN [file |-> openR(h, f.node), err |-> Nil]
            ELSE IF ~IsNotExist(f.err) THEN [file |-> NoHandle, err |-> f.err]
            ELSE LET g == getDir(h, d, name)
                 IN IF g.err = Nil THEN [file |-> DirHandle(g.node), err |-> Nil]
                    ELSE IF ~IsNotExist(g.err) THEN [file |-> NoHandle, err |-> g.err]
                    ELSE [file |-> NoHandle, err |-> ErrNotExist]

(***************************************************************************)
(* ReadDir.                                                                *)
(***************************************************************************)
\* the orders in which a range loop may visit the keys of map m
MapOrders(m) ==
    LET n == Cardinality(DOMAIN m)
    IN {s \in [1..n -> DOMAIN m] : \A i, j \in 1..n : s[i] = s[j] => i = j}

\* the less function handed to sort.Slice
EntryLess(x, y) == StrLess(x.name, y.name)

\* the entries left in the order of the range loops
SortSliceNone(entries) == {entries}

\* sort.Slice(entries, less): not stable, so any arrangement of the entries
\* in which no later entry is less than an earlier one
SortSlice(entries) ==
    LET n == Len(entries)
        perms == {q \in [1..n -> 1..n] : \A i, j \in 1..n : q[i] = q[j] => i = j}
    IN {r \in {[i \in 1..n |-> entries[q[i]]] : q \in perms} :
           \A i, j \in 1..n : i < j => ~EntryLess(r[j], r[i])}

\* lines 91-103: the entries of the files, then of the dirs, then the sort
ListDir(h, d) ==
    UNION {SortSlice([i \in 1..Len(fo) |-> FileStat(h, h.d[d].files[fo[i]])]
                     \o [i \in 1..Len(do) |-> Stat(h, h.d[d].dirs[do[i]])]) :
               fo \in MapOrders(h.d[d].files), do \in MapOrders(h.d[d].dirs)}

\* the results ReadDir may return; dir is the node that was listed
RECURSIVE ReadDir(_, _, _)
ReadDir(h, d, name) ==
    IF name = StrEmpty
    THEN {[entries |-> e, err |-> Nil, dir |-> d] : e \in ListDir(h, d)}
    ELSE LET parts == Split(name)
         IN IF ~HasDir(h, d, parts[1])
            THEN {[entries |-> <<>>, err |-> ErrNotExist, dir |-> 0]}
            ELSE ReadDir(h, h.d[d].dirs[parts[1]], Join(Tail(parts)))

(***************************************************************************)
(* The calls, one at a time, on the root of the tree.  last records the    *)
(* call that returned last and what it returned.                           *)
(***************************************************************************)
NoInfo == [name |-> StrEmpty, size |-> 0, modified |-> 0, isDir |-> FALSE, mode |-> 0]

NoCall ==
    [op |-> "none", path |-> StrEmpty, data |-> <<>>, perm |-> 0, err |-> Nil,
     file |-> NoHandle, entries |-> <<>>, info |-> NoInfo, dir |-> 0]

(***************************************************************************)
(* Threads.  A thread is at a statement (pc) of one function, on the node  *)
(* d with the remaining path name; locks is the stack of the locks it      *)
(* holds and want the lock whose Lock() it is blocked in.                  *)
(***************************************************************************)
Threads == 1..NThreads

DirLock(d) == [kind |-> "dir", id |-> d]
FileLock(x) == [kind |-> "file", id |-> x]
NoLock == [kind |-> "none", id |-> 0]

IdleThread ==
    [pc |-> "idle", op |-> "none", path |-> StrEmpty, d |-> 0, name |-> StrEmpty,
     data |-> <<>>, perm |-> 0, caller |-> "none", cont |-> StrEmpty,
     locks |-> <<>>, want |-> NoLock, todoF |-> {}, todoD |-> {}, cur |-> StrEmpty,
     acc |-> <<>>, err |-> Nil, file |-> NoHandle, entries |-> <<>>, info |-> NoInfo,
     dir |-> 0, calls |-> 0]

\* the root as its constructor leaves it: an empty directory
EmptyTree ==
    [d |-> <<[NewDir(StrDot, 0, 448) EXCEPT !.info.modified = 0]>>, f |-> <<>>,
     now |-> 1]

Init ==
    /\ dnode = EmptyTree.d
    /\ fnode = EmptyTree.f
    /\ now = EmptyTree.now
    /\ nops = 0
    /\ last = NoCall
    /\ th = [t \in Threads |-> IdleThread]
    /\ tree0 = EmptyTree

CallMkdirAll ==
    \E path \in Paths, perm \in DirPerms :
        /\ nops < MaxOps
        /\ LET r == MkdirAll(Heap, Root, path, perm)
           IN /\ dnode' = r.heap.d
              /\ fnode' = r.heap.f
              /\ now' = r.heap.now
              /\ last' = [NoCall EXCEPT !.op = "MkdirAll", !.path = path,
                                        !.perm = perm, !.err = r.err]
        /\ nops' = nops + 1
        /\ UNCHANGED <<th, tree0>>

CallWriteFile ==
    \E path \in Paths, data \in Payloads, perm \in FilePerms :
        /\ nops < MaxOps
        /\ LET r == WriteFile(Heap, Root, path, data, perm)
           IN /\ dnode' = r.heap.d
              /\ fnode' = r.heap.f
              /\ now' = r.heap.now
              /\ last' = [NoCall EXCEPT !.op = "WriteFile", !.path = path,
                                        !.data = data, !.perm = perm, !.err = r.err]
        /\ nops' = nops + 1
        /\ UNCHANGED <<th, tree0>>

CallOpen ==
    \E path \in Paths :
        /\ nops < MaxOps
        /\ LET r == Open(Heap, Root, path)
           IN last' = [NoCall EXCEPT !.op = "Open", !.path = path,
                                     !.err = r.err, !.file = r.file]
        /\ nops' = nops + 1
        /\ UNCHANGED <<dnode, fnode, now, th, tree0>>

\* Stat on the root or on the directory handle the last Open returned
CallStat ==
    \E d \in {Root} \cup (IF last.file.kind = "dir" THEN {last.file.node} ELSE {}) :
        /\ nops < MaxOps
        /\ last' = [NoCall EXCEPT !.op = "Stat", !.file = DirHandle(d),
                                  !.info = Stat(Heap, d)]
        /\ nops' = nops + 1
        /\ UNCHANGED <<dnode, fnode, now, th, tree0>>

CallReadDir ==
    \E path \in Paths :
        /\ nops < MaxOps
        /\ \E r \in ReadDir(Heap, Root, path) :
               last' = [NoCall EXCEPT !.op = "ReadDir", !.path = path, !.err = r.err,
                                     !.entries = r.entries, !.dir = r.dir]
        /\ nops' = nops + 1
        /\ UNCHANGED <<dnode, fnode, now, th, tree0>>

Next ==
    \/ CallMkdirAll
    \/ CallWriteFile
    \/ CallOpen
    \/ CallStat
    \/ CallReadDir

Spec == Init /\ [][Next]_vars

(***************************************************************************)
(* Concurrent runs: the same functions, one statement group at a time.     *)
(* A pc is the function and the line of dir.go the thread is about to run. *)
(***************************************************************************)
\* sync.RWMutex: a reader enters unless a writer holds the lock or is
\* blocked in Lock(); a writer enters once no reader and no writer holds it
HoldsLock(t, k, mode) ==
    \E i \in 1..Len(th[t].locks) : th[t].locks[i] = [lock |-> k, mode |-> mode]

CanRLock(k) ==
    \A u \in Threads : ~HoldsLock(u, k, "W") /\ th[u].want # k

CanLock(k) ==
    \A u \in Threads : ~HoldsLock(u, k, "W") /\ ~HoldsLock(u, k, "R")

Push(r, k, mode) == [r EXCEPT !.locks = Append(r.locks, [lock |-> k, mode |-> mode])]

Pop(r) == [r EXCEPT !.locks = SubSeq(r.locks, 1, Len(r.locks) - 1)]

\* the call returns to the caller of the thread
Done(r) == [r EXCEPT !.pc = "done"]

\* return err: what is left is the deferred unlocks
Return(r, err) == [r EXCEPT !.pc = "return", !.err = err]

SetHeap(h) ==
    /\ dnode' = h.d
    /\ fnode' = h.f
    /\ now' = h.now

\* the paths, payloads and modes of the calls of a concurrent run
ConcPaths == {<<97>>, <<98>>, <<97, 47, 97>>, <<97, 47, 98>>}
ConcReadPaths == {StrEmpty, <<97>>, <<97, 47, 98>>}
ConcPayload(t) == <<t>>

CanStart(t) == th[t].pc \in {"idle", "done"} /\ th[t].calls < MaxThreadOps

Call(t, op, path, data, perm) ==
    [IdleThread EXCEPT !.op = op, !.path = path, !.d = Root, !.name = path,
                       !.data = data, !.perm = perm, !.calls = th[t].calls + 1]

\* ---- MkdirAll ----
StartMkdirAll(t) ==
    /\ CanStart(t)
    /\ \E path \in ConcPaths, perm \in DirPerms :
           th' = [th EXCEPT ![t] = [Call(t, "MkdirAll", path, <<>>, perm)
                                       EXCEPT !.pc = "MkdirAll:128"]]
    /\ UNCHANGED <<dnode, fnode, now, nops, last, tree0>>

\* lines 129-133: the file check, under the read lock taken at line 128
MkdirAllCheck(t) ==
    LET r == th[t]
        parts == Split(r.name)
    IN /\ r.pc = "MkdirAll:129"
       /\ th' = [th EXCEPT ![t] =
                    IF HasFile(Heap, r.d, parts[1]) THEN Return(Pop(r), ErrExist)
                    ELSE [Pop(r) EXCEPT !.pc = "MkdirAll:135"]]
       /\ UNCHANGED <<dnode, fnode, now, nops, last, tree0>>

\* lines 136-154, under the write lock taken at line 135
MkdirAllCreate(t) ==
    LET r == th[t]
        parts == Split(r.name)
    IN /\ r.pc = "MkdirAll:136"
       /\ SetHeap(MkdirLocked(Heap, r.d, parts[1], r.perm))
       /\ th' = [th EXCEPT ![t] =
                    IF Len(parts) = 1 THEN Return(Pop(r), Nil)
                    ELSE [Pop(r) EXCEPT !.pc = "MkdirAll:156"]]
       /\ UNCHANGED <<nops, last, tree0>>

\* lines 156-158: f.RLock(), its unlock deferred, then the call on the child
MkdirAllRecurse(t) ==
    LET r == th[t]
        parts == Split(r.name)
    IN /\ r.pc = "MkdirAll:156"
       /\ CanRLock(DirLock(r.d))
       /\ th' = [th EXCEPT ![t] =
                    [Push(r, DirLock(r.d), "R") EXCEPT
                        !.d = dnode[r.d].dirs[parts[1]],
                        !.name = Join(Tail(parts)),
                        !.pc = "MkdirAll:128"]]
       /\ UNCHANGED <<dnode, fnode, now, nops, last, tree0>>

\* ---- WriteFile ----
\* line 164: the leaf or the descent
EnterWriteFile(r) ==
    [r EXCEPT !.pc = IF Len(Split(r.name)) = 1 THEN "WriteFile:171"
                     ELSE "WriteFile:192"]

StartWriteFile(t) ==
    /\ CanStart(t)
    /\ \E path \in ConcPaths, perm \in FilePerms :
           th' = [th EXCEPT ![t] =
                     EnterWriteFile(Call(t, "WriteFile", path, ConcPayload(t), perm))]
    /\ UNCHANGED <<dnode, fnode, now, nops, last, tree0>>

\* lines 173-189, under the write lock taken at line 171 (unlock deferred)
WriteFileLeaf(t) ==
    LET r == th[t]
    IN /\ r.pc = "WriteFile:173"
       /\ IF HasFile(Heap, r.d, r.name)
          THEN /\ th' = [th EXCEPT ![t].pc = "overwrite:Lock"]
               /\ UNCHANGED <<dnode, fnode, now>>
          ELSE LET w == WriteLocked(Heap, r.d, r.name, r.data, r.perm)
               IN /\ SetHeap(w.heap)
                  /\ th' = [th EXCEPT ![t] = Return(r, w.err)]
       /\ UNCHANGED <<nops, last, tree0>>

\* existing.overwrite(buffer, perm), under the file's write lock
WriteFileOverwrite(t) ==
    LET r == th[t]
        w == WriteLocked(Heap, r.d, r.name, r.data, r.perm)
    IN /\ r.pc = "overwrite:body"
       /\ SetHeap(w.heap)
       /\ th' = [th EXCEPT ![t] = Return(Pop(r), w.err)]
       /\ UNCHANGED <<nops, last, tree0>>

\* lines 193-197: the directory check, under the read lock taken at line 192
WriteFileCheck(t) ==
    LET r == th[t]
        parts == Split(r.name)
    IN /\ r.pc = "WriteFile:193"
       /\ th' = [th EXCEPT ![t] =
                    IF ~HasDir(Heap, r.d, parts[1]) THEN Return(Pop(r), ErrNotExist)
                    ELSE [Pop(r) EXCEPT !.pc = "WriteFile:199"]]
       /\ UNCHANGED <<dnode, fnode, now, nops, last, tree0>>

\* lines 199-201: f.RLock(), its unlock deferred, then the call on the child
WriteFileRecurse(t) ==
    LET r == th[t]
        parts == Split(r.name)
    IN /\ r.pc = "WriteFile:199"
       /\ CanRLock(DirLock(r.d))
       /\ th' = [th EXCEPT ![t] =
                    EnterWriteFile([Push(r, DirLock(r.d), "R") EXCEPT
                                       !.d = dnode[r.d].dirs[parts[1]],
                                       !.name = Join(Tail(parts))])]
       /\ UNCHANGED <<dnode, fnode, now, nops, last, tree0>>

\* ---- the locks ----
\* the lock a thread at pc is about to take, and the pc after it
LockOf(r) ==
    IF r.pc \in {"overwrite:Lock", "overwrite:wait"}
    THEN FileLock(dnode[r.d].files[r.name])
    ELSE DirLock(r.d)

AfterRLock ==
    [p \in {"MkdirAll:128", "WriteFile:192", "getFile:53", "getDir:78", "Stat:44",
            "ReadDir:108"} |->
        CASE p = "MkdirAll:128" -> "MkdirAll:129"
          [] p = "WriteFile:192" -> "WriteFile:193"
          [] p = "getFile:53" -> "getFile:54"
          [] p = "getDir:78" -> "getDir:79"
          [] p = "Stat:44" -> "Stat:46"
          [] p = "ReadDir:108" -> "ReadDir:109"]

AfterLock ==
    [p \in {"MkdirAll:135", "WriteFile:171", "overwrite:Lock"} |->
        CASE p = "MkdirAll:135" -> "MkdirAll:135w"
          [] p = "WriteFile:171" -> "WriteFile:171w"
          [] p = "overwrite:Lock" -> "overwrite:wait"]

AfterLocked ==
    [p \in {"MkdirAll:135w", "WriteFile:171w", "overwrite:wait"} |->
        CASE p = "MkdirAll:135w" -> "MkdirAll:136"
          [] p = "WriteFile:171w" -> "WriteFile:173"
          [] p = "overwrite:wait" -> "overwrite:body"]

\* RLock(): enter as a reader
RLock(t) ==
    LET r == th[t]
    IN /\ r.pc \in DOMAIN AfterRLock
       /\ CanRLock(LockOf(r))
       /\ th' = [th EXCEPT ![t] = [Push(r, LockOf(r), "R") EXCEPT !.pc = AfterRLock[r.pc]]]
       /\ UNCHANGED <<dnode, fnode, now, nops, last, tree0>>

\* Lock(): announce the writer, which keeps new readers out
LockRequest(t) ==
    LET r == th[t]
    IN /\ r.pc \in DOMAIN AfterLock
       /\ th' = [th EXCEPT ![t] = [r EXCEPT !.want = LockOf(r), !.pc = AfterLock[r.pc]]]
       /\ UNCHANGED <<dnode, fnode, now, nops, last, tree0>>

\* Lock() returns: the readers have left and no writer holds the lock
LockAcquire(t) ==
    LET r == th[t]
    IN /\ r.pc \in DOMAIN AfterLocked
       /\ CanLock(r.want)
       /\ th' = [th EXCEPT ![t] = [Push(r, r.want, "W") EXCEPT
                                      !.want = NoLock, !.pc = AfterLocked[r.pc]]]
       /\ UNCHANGED <<dnode, fnode, now, nops, last, tree0>>

\* a return that leaves the deferred unlocks undone
ReturnStepKeepsLocks(t) ==
    LET r == th[t]
    IN /\ r.pc = "return"
       /\ th' = [th EXCEPT ![t] = Done(r)]
       /\ UNCHANGED <<dnode, fnode, now, nops, last, tree0>>

\* the deferred unlocks, innermost first, then the return to the caller
ReturnStep(t) ==
    LET r == th[t]
    IN /\ r.pc = "return"
       /\ th' = [th EXCEPT ![t] = IF r.locks = <<>> THEN Done(r) ELSE Pop(r)]
       /\ UNCHANGED <<dnode, fnode, now, nops, last, tree0>>

\* ---- Open, getFile, getDir ----
\* Open, lines 34-40: what getDir(name) returned
OpenAfterGetDir(r, node, err) ==
    IF err = Nil THEN Done([r EXCEPT !.file = DirHandle(node), !.err = Nil])
    ELSE IF ~IsNotExist(err) THEN Done([r EXCEPT !.err = err])
    ELSE Done([r EXCEPT !.err = ErrNotExist])

RECURSIVE EnterGetFile(_), EnterGetDir(_), ReturnGetDir(_, _, _)

\* getDir, lines 72-78: up to the read lock
EnterGetDir(r) ==
    IF r.name = StrEmpty THEN ReturnGetDir(r, r.d, Nil)
    ELSE [r EXCEPT !.pc = "getDir:78"]

\* getFile, lines 51-53 and 62: up to the read lock of getFile or of getDir
EnterGetFile(r) ==
    LET parts == Split(r.name)
    IN IF Len(parts) = 1 THEN [r EXCEPT !.pc = "getFile:53"]
       ELSE EnterGetDir([r EXCEPT !.name = parts[1], !.cont = Join(Tail(parts)),
                                  !.caller = "getFile"])

\* getDir returns, to getFile (lines 62-67), which on an error returns it to
\* Open (lines 28-34), or to Open (lines 34-40)
ReturnGetDir(r, node, err) ==
    IF r.caller = "getFile"
    THEN IF err # Nil
         THEN IF ~IsNotExist(err) THEN Done([r EXCEPT !.err = err])
              ELSE EnterGetDir([r EXCEPT !.d = Root, !.name = r.path, !.caller = "Open"])
         ELSE EnterGetFile([r EXCEPT !.d = node, !.name = r.cont, !.caller = "Open"])
    ELSE OpenAfterGetDir(r, node, err)

StartOpen(t) ==
    /\ CanStart(t)
    /\ \E path \in ConcReadPaths \cup {StrDot} :
           LET r == Call(t, "Open", path, <<>>, 0)
           IN th' = [th EXCEPT ![t] =
                        IF path = StrEmpty \/ path = StrDot
                        THEN Done([r EXCEPT !.file = DirHandle(Root)])
                        ELSE EnterGetFile([r EXCEPT !.caller = "Open"])]
    /\ UNCHANGED <<dnode, fnode, now, nops, last, tree0>>

\* getFile, lines 54-59, and Open's use of the result (lines 28-34)
GetFileLookup(t) ==
    LET r == th[t]
    IN /\ r.pc = "getFile:54"
       /\ th' = [th EXCEPT ![t] =
                    IF HasFile(Heap, r.d, r.name)
                    THEN Done([Pop(r) EXCEPT
                                  !.file = openR(Heap, dnode[r.d].files[r.name])])
                    ELSE EnterGetDir([Pop(r) EXCEPT !.d = Root, !.name = r.path,
                                                    !.caller = "Open"])]
       /\ UNCHANGED <<dnode, fnode, now, nops, last, tree0>>

\* getDir, lines 79-85
GetDirLookup(t) ==
    LET r == th[t]
        parts == Split(r.name)
    IN /\ r.pc = "getDir:79"
       /\ th' = [th EXCEPT ![t] =
                    IF HasDir(Heap, r.d, parts[1])
                    THEN EnterGetDir([Pop(r) EXCEPT !.d = dnode[r.d].dirs[parts[1]],
                                                    !.name = Join(Tail(parts))])
                    ELSE ReturnGetDir(Pop(r), 0, ErrNotExist)]
       /\ UNCHANGED <<dnode, fnode, now, nops, last, tree0>>

\* ---- Stat ----
StartStat(t) ==
    /\ CanStart(t)
    /\ th' = [th EXCEPT ![t] = [Call(t, "Stat", StrEmpty, <<>>, 0) EXCEPT !.pc = "Stat:44"]]
    /\ UNCHANGED <<dnode, fnode, now, nops, last, tree0>>

\* line 46, under the read lock taken at line 44
StatRead(t) ==
    LET r == th[t]
    IN /\ r.pc = "Stat:46"
       /\ th' = [th EXCEPT ![t] = Done([Pop(r) EXCEPT !.info = Stat(Heap, r.d)])]
       /\ UNCHANGED <<dnode, fnode, now, nops, last, tree0>>

\* ---- ReadDir ----
\* line 90: the listing or the descent
EnterReadDir(r) ==
    [r EXCEPT !.pc = IF r.name = StrEmpty THEN "ReadDir:92" ELSE "ReadDir:108"]

StartReadDir(t) ==
    /\ CanStart(t)
    /\ \E path \in ConcReadPaths :
           th' = [th EXCEPT ![t] = EnterReadDir(Call(t, "ReadDir", path, <<>>, 0))]
    /\ UNCHANGED <<dnode, fnode, now, nops, last, tree0>>

\* the loops entered without d.RLock()
ReadDirNoRLock(t) ==
    LET r == th[t]
    IN /\ r.pc = "ReadDir:92"
       /\ th' = [th EXCEPT ![t] =
                    [Push(r, NoLock, "R") EXCEPT
                        !.todoF = DOMAIN dnode[r.d].files,
                        !.todoD = DOMAIN dnode[r.d].dirs,
                        !.pc = "ReadDir:93"]]
       /\ UNCHANGED <<dnode, fnode, now, nops, last, tree0>>

\* line 92: d.RLock(), held over both loops
ReadDirRLock(t) ==
    LET r == th[t]
    IN /\ r.pc = "ReadDir:92"
       /\ CanRLock(DirLock(r.d))
       /\ th' = [th EXCEPT ![t] =
                    [Push(r, DirLock(r.d), "R") EXCEPT
                        !.todoF = DOMAIN dnode[r.d].files,
                        !.todoD = DOMAIN dnode[r.d].dirs,
                        !.pc = "ReadDir:93"]]
       /\ UNCHANGED <<dnode, fnode, now, nops, last, tree0>>

\* line 94: the next file of the range loop; its Stat takes the file's read lock
ReadDirNextFile(t) ==
    LET r == th[t]
    IN /\ r.pc = "ReadDir:93"
       /\ \E x \in r.todoF :
              /\ CanRLock(FileLock(dnode[r.d].files[x]))
              /\ th' = [th EXCEPT ![t] =
                           [Push(r, FileLock(dnode[r.d].files[x]), "R") EXCEPT
                               !.cur = x, !.pc = "ReadDir:94"]]
       /\ UNCHANGED <<dnode, fnode, now, nops, last, tree0>>

\* lines 94-95: the file's metadata is appended
ReadDirFileStat(t) ==
    LET r == th[t]
    IN /\ r.pc = "ReadDir:94"
       /\ th' = [th EXCEPT ![t] =
                    [Pop(r) EXCEPT
                        !.acc = Append(r.acc, FileStat(Heap, dnode[r.d].files[r.cur])),
                        !.todoF = r.todoF \ {r.cur},
                        !.pc = "ReadDir:93"]]
       /\ UNCHANGED <<dnode, fnode, now, nops, last, tree0>>

\* line 98: the next directory of the range loop; dir.Stat() takes its read lock
ReadDirNextDir(t) ==
    LET r == th[t]
    IN /\ r.pc = "ReadDir:93"
       /\ r.todoF = {}
       /\ \E x \in r.todoD :
              /\ CanRLock(DirLock(dnode[r.d].dirs[x]))
              /\ th' = [th EXCEPT ![t] =
                           [Push(r, DirLock(dnode[r.d].dirs[x]), "R") EXCEPT
                               !.cur = x, !.pc = "ReadDir:98"]]
       /\ UNCHANGED <<dnode, fnode, now, nops, last, tree0>>

\* lines 98-99: the directory's metadata is appended
ReadDirDirStat(t) ==
    LET r == th[t]
    IN /\ r.pc = "ReadDir:98"
       /\ th' = [th EXCEPT ![t] =
                    [Pop(r) EXCEPT
                        !.acc = Append(r.acc, Stat(Heap, dnode[r.d].dirs[r.cur])),
                        !.todoD = r.todoD \ {r.cur},
                        !.pc = "ReadDir:93"]]
       /\ UNCHANGED <<dnode, fnode, now, nops, last, tree0>>

\* lines 101-103: d.RUnlock(), the sort, the return
ReadDirFinish(t) ==
    LET r == th[t]
    IN /\ r.pc = "ReadDir:93"
       /\ r.todoF = {}
       /\ r.todoD = {}
       /\ \E e \in SortSlice(r.acc) :
              th' = [th EXCEPT ![t] = Done([Pop(r) EXCEPT !.entries = e, !.dir = r.d])]
       /\ UNCHANGED <<dnode, fnode, now, nops, last, tree0>>

\* lines 109-114, under the read lock taken at line 108
ReadDirLookup(t) ==
    LET r == th[t]
        parts == Split(r.name)
    IN /\ r.pc = "ReadDir:109"
       /\ th' = [th EXCEPT ![t] =
                    IF ~HasDir(Heap, r.d, parts[1]) THEN Done([Pop(r) EXCEPT !.err = ErrNotExist])
                    ELSE EnterReadDir([Pop(r) EXCEPT !.d = dnode[r.d].dirs[parts[1]],
                                                     !.name = Join(Tail(parts))])]
       /\ UNCHANGED <<dnode, fnode, now, nops, last, tree0>>

\* ---- the concurrent specification ----
\* the trees a concurrent run starts from: the empty tree and those that one
\* or two calls make of it
SetupCalls(h) ==
    {MkdirAll(h, Root, <<97>>, 448).heap}
        \cup {WriteFile(h, Root, p, <<9>>, 420).heap : p \in {<<97>>, <<97, 47, 98>>}}

SetupTrees ==
    {EmptyTree} \cup SetupCalls(EmptyTree)
        \cup UNION {SetupCalls(h) : h \in SetupCalls(EmptyTree)}

InitConc ==
    /\ tree0 \in SetupTrees
    /\ dnode = tree0.d
    /\ fnode = tree0.f
    /\ now = tree0.now
    /\ nops = 0
    /\ last = NoCall
    /\ th = [t \in Threads |-> IdleThread]

Step(t) ==
    \/ StartMkdirAll(t)
    \/ StartWriteFile(t)
    \/ StartOpen(t)
    \/ StartStat(t)
    \/ StartReadDir(t)
    \/ RLock(t)
    \/ LockRequest(t)
    \/ LockAcquire(t)
    \/ ReturnStep(t)
    \/ MkdirAllCheck(t)
    \/ MkdirAllCreate(t)
    \/ MkdirAllRecurse(t)
    \/ WriteFileLeaf(t)
    \/ WriteFileOverwrite(t)
    \/ WriteFileCheck(t)
    \/ WriteFileRecurse(t)
    \/ GetFileLookup(t)
    \/ GetDirLookup(t)
    \/ StatRead(t)
    \/ ReadDirRLock(t)
    \/ ReadDirNextFile(t)
    \/ ReadDirFileStat(t)
    \/ ReadDirNextDir(t)
    \/ ReadDirDirStat(t)
    \/ ReadDirFinish(t)
    \/ ReadDirLookup(t)

NextConc == \E t \in Threads : Step(t)

SpecConc == InitConc /\ [][NextConc]_vars

(***************************************************************************)
(* The tree as the claims speak of it.                                     *)
(***************************************************************************)
DirIds == 1..Len(dnode)

FileIds == 1..Len(fnode)

\* the directory reached from d by the child directories named segs, 0 if none
RECURSIVE WalkDirs(_, _, _)
WalkDirs(h, d, segs) ==
    IF Len(segs) = 0 THEN d
    ELSE IF Head(segs) \in DOMAIN h.d[d].dirs
         THEN WalkDirs(h, h.d[d].dirs[Head(segs)], Tail(segs))
         ELSE 0

Front(segs) == SubSeq(segs, 1, Len(segs) - 1)

Final(segs) == segs[Len(segs)]

\* the file node at path p, 0 if none
FileAt(h, p) ==
    LET segs == Split(p)
        parent == WalkDirs(h, Root, Front(segs))
    IN IF parent # 0 /\ Final(segs) \in DOMAIN h.d[parent].files
       THEN h.d[parent].files[Final(segs)]
       ELSE 0

\* some node, file or directory, is at path p
NodeAt(h, p) ==
    LET segs == Split(p)
        parent == WalkDirs(h, Root, Front(segs))
    IN /\ parent # 0
       /\ Final(segs) \in DOMAIN h.d[parent].files \cup DOMAIN h.d[parent].dirs

\* no segment of p before the last is empty
InnerSegmentsNamed(p) ==
    \A i \in 1..(Len(Split(p)) - 1) : Split(p)[i] # StrEmpty

\* no segment of p is empty, and p is not "."
AllSegmentsNamed(p) ==
    /\ p # StrDot
    /\ \A i \in 1..Len(Split(p)) : Split(p)[i] # StrEmpty

\* the paths made of the first 1, 2, ... segments of p
Prefixes(p) == {Join(SubSeq(Split(p), 1, n)) : n \in 1..Len(Split(p))}

\* Open(p) returns a directory handle whose Stat().IsDir() is true
OpensAsDir(h, p) ==
    LET o == Open(h, Root, p)
    IN /\ o.err = Nil
       /\ o.file.kind = "dir"
       /\ Stat(h, o.file.node).isDir

\* Open(p) returns a file handle that reads data
OpensAsFile(h, p, data) ==
    LET o == Open(h, Root, p)
    IN /\ o.err = Nil
       /\ o.file.kind = "file"
       /\ o.file.pos = 0
       /\ o.file.content = data

(***************************************************************************)
(* C1: in every reachable state no directory node has a name that is a key *)
(* of both its dirs map and its files map.                                 *)
(***************************************************************************)
NoNameIsFileAndDir ==
    \A d \in DirIds : DOMAIN dnode[d].dirs \cap DOMAIN dnode[d].files = {}

(***************************************************************************)
(* C2: round trip.  As claimed: after a successful WriteFile(p, data),     *)
(* Open(p) returns a handle that reads exactly data, for every path p.     *)
(***************************************************************************)
RoundTripEveryPath ==
    (last.op = "WriteFile" /\ last.err = Nil)
        => OpensAsFile(Heap, last.path, last.data)

\* C2 as amended: the round trip holds for every path other than "" and "."
\* none of whose segments before the last is empty.
RoundTrip ==
    (/\ last.op = "WriteFile"
     /\ last.err = Nil
     /\ last.path \notin {StrEmpty, StrDot}
     /\ InnerSegmentsNamed(last.path))
        => OpensAsFile(Heap, last.path, last.data)

RoundTripWitness ==
    /\ last.op = "WriteFile"
    /\ last.err = Nil
    /\ Len(Split(last.path)) = 2
    /\ InnerSegmentsNamed(last.path)
    /\ last.data = <<2, 3>>
    /\ OpensAsFile(Heap, last.path, <<2, 3>>)

(***************************************************************************)
(* C3: overwrite, not accumulation.  A successful WriteFile(p, d2) to a    *)
(* path at which an earlier successful WriteFile made a file leaves that   *)
(* same node, and no other, under the name in the parent's file map, with  *)
(* content d2 and size len(d2).  (A file node is at p exactly when an      *)
(* earlier WriteFile(p) succeeded: nothing else makes file nodes.)         *)
(***************************************************************************)
OverwriteInPlace ==
    [][(/\ last'.op = "WriteFile"
        /\ last'.err = Nil
        /\ FileAt(Heap, last'.path) # 0)
          => (/\ FileAt(Heap', last'.path) = FileAt(Heap, last'.path)
              /\ Len(fnode') = Len(fnode)
              /\ \A d \in DirIds : dnode'[d].files = dnode[d].files
              /\ fnode'[FileAt(Heap, last'.path)].content.bytes = last'.data
              /\ fnode'[FileAt(Heap, last'.path)].info.size = Len(last'.data))]_vars

\* two calls, both of which moved the clock, and neither made a directory:
\* a WriteFile that made the file and a WriteFile that overwrote it
OverwriteWitness ==
    /\ nops = 2
    /\ now = 3
    /\ Len(dnode) = 1
    /\ Len(fnode) = 1
    /\ last.op = "WriteFile"
    /\ last.err = Nil
    /\ fnode[1].content.bytes = last.data
    /\ fnode[1].info.modified = 2

(***************************************************************************)
(* C4: as claimed: for every path p at which no node was made, Open(p) on  *)
(* the root fails with fs.ErrNotExist.                                     *)
(***************************************************************************)
OpenOfNothingFails ==
    \A p \in Paths : ~NodeAt(Heap, p) => Open(Heap, Root, p).err = ErrNotExist

\* C4 as amended: for every path p other than "." with no empty segment at
\* which no node was made, Open(p) on the root fails with fs.ErrNotExist.
OpenOfNothingFailsNamed ==
    \A p \in Paths :
        (AllSegmentsNamed(p) /\ ~NodeAt(Heap, p))
            => Open(Heap, Root, p).err = ErrNotExist

OpenOfNothingWitness ==
    /\ last.op = "Open"
    /\ last.err = ErrNotExist
    /\ Len(Split(last.path)) = 2
    /\ AllSegmentsNamed(last.path)
    /\ ~NodeAt(Heap, last.path)
    /\ WalkDirs(Heap, Root, Front(Split(last.path))) # 0
    /\ Len(fnode) > 0

(***************************************************************************)
(* C5: as claimed: after a successful MkdirAll(p) of a multi-segment path, *)
(* Open(p) and Open of every proper prefix of p return a directory handle  *)
(* whose Stat().IsDir() is true.                                           *)
(***************************************************************************)
MkdirThenOpenEveryPath ==
    (/\ last.op = "MkdirAll"
     /\ last.err = Nil
     /\ Len(Split(last.path)) > 1)
        => \A q \in Prefixes(last.path) : OpensAsDir(Heap, q)

\* C5 as amended: the same, for the multi-segment paths none of whose
\* segments before the last is empty.
MkdirThenOpen ==
    (/\ last.op = "MkdirAll"
     /\ last.err = Nil
     /\ Len(Split(last.path)) > 1
     /\ InnerSegmentsNamed(last.path))
        => \A q \in Prefixes(last.path) : OpensAsDir(Heap, q)

MkdirThenOpenWitness ==
    /\ last.op = "MkdirAll"
    /\ last.err = Nil
    /\ Len(Split(last.path)) = MaxDepth
    /\ AllSegmentsNamed(last.path)
    /\ Len(dnode) = 1 + MaxDepth
    /\ \A q \in Prefixes(last.path) : OpensAsDir(Heap, q)

(***************************************************************************)
(* C6: a MkdirAll on a node that has a file under the first segment of the *)
(* path returns fs.ErrExist and changes nothing: no directory is made, and *)
(* the file map, the file and the node's modification time stay as they    *)
(* were.                                                                   *)
(***************************************************************************)
MkdirOverFile ==
    [][(/\ last'.op = "MkdirAll"
        /\ HasFile(Heap, Root, Split(last'.path)[1]))
          => (/\ last'.err = ErrExist
              /\ dnode' = dnode
              /\ fnode' = fnode)]_vars

MkdirOverFileWitness ==
    /\ last.op = "MkdirAll"
    /\ last.err = ErrExist
    /\ HasFile(Heap, Root, Split(last.path)[1])
    /\ ~HasDir(Heap, Root, Split(last.path)[1])

(***************************************************************************)
(* C7: a WriteFile of a multi-segment path some segment of which, before   *)
(* the last, names no child directory at its level returns fs.ErrNotExist  *)
(* and leaves the whole tree unchanged.                                    *)
(***************************************************************************)
WriteMakesNoDirs ==
    [][(/\ last'.op = "WriteFile"
        /\ Len(Split(last'.path)) > 1
        /\ WalkDirs(Heap, Root, Front(Split(last'.path))) = 0)
          => (/\ last'.err = ErrNotExist
              /\ dnode' = dnode
              /\ fnode' = fnode)]_vars

WriteMakesNoDirsWitness ==
    /\ last.op = "WriteFile"
    /\ last.err = ErrNotExist
    /\ Len(Split(last.path)) > 1
    /\ Len(dnode) > 1
    /\ WalkDirs(Heap, Root, Front(Split(last.path))) = 0

(***************************************************************************)
(* C8: ReadDir("") on a directory node returns one entry per child file    *)
(* and one per child directory and nothing else, in non-decreasing order   *)
(* of name; the names come in the one order that the set of children       *)
(* fixes, whatever the order in which they were inserted.                  *)
(***************************************************************************)
\* the names of the entries, in order
EntryNames(e) == [i \in 1..Len(e) |-> e[i].name]

\* the number of entries of e that are the metadata x
Count(e, x) == Cardinality({i \in 1..Len(e) : e[i] = x})

\* the names of the children of d, each once per child, least first
RECURSIVE Ascending(_, _)
Ascending(filenames, dirnames) ==
    IF filenames \cup dirnames = {} THEN <<>>
    ELSE LET m == CHOOSE x \in filenames \cup dirnames :
                      \A y \in filenames \cup dirnames : ~StrLess(y, x)
         IN (IF m \in filenames THEN <<m>> ELSE <<>>)
                \o (IF m \in dirnames THEN <<m>> ELSE <<>>)
                \o Ascending(filenames \ {m}, dirnames \ {m})

ListingOf(d, r) ==
    /\ r.err = Nil
    /\ r.dir = d
    /\ Len(r.entries) = Cardinality(DOMAIN dnode[d].files) + Cardinality(DOMAIN dnode[d].dirs)
    /\ \A x \in DOMAIN dnode[d].files : Count(r.entries, fnode[dnode[d].files[x]].info) = 1
    /\ \A x \in DOMAIN dnode[d].dirs : Count(r.entries, dnode[dnode[d].dirs[x]].info) = 1
    /\ \A i, j \in 1..Len(r.entries) :
           i < j => ~StrLess(r.entries[j].name, r.entries[i].name)
    /\ EntryNames(r.entries) = Ascending(DOMAIN dnode[d].files, DOMAIN dnode[d].dirs)

ReadDirListsChildren ==
    /\ \A d \in DirIds : \A r \in ReadDir(Heap, d, StrEmpty) : ListingOf(d, r)
    /\ (last.op = "ReadDir" /\ last.err = Nil) => ListingOf(last.dir, last)

\* a file and a directory listed in the order of their names, the one that
\* comes second having been inserted first
ReadDirWitness ==
    /\ last.op = "ReadDir"
    /\ last.path = StrEmpty
    /\ Len(last.entries) = 2
    /\ StrLess(last.entries[1].name, last.entries[2].name)
    /\ last.entries[1].isDir # last.entries[2].isDir
    /\ last.entries[2].modified < last.entries[1].modified

(***************************************************************************)
(* C9: concurrent writers to distinct names.  As claimed: when every       *)
(* thread calls WriteFile on the root with a single-segment name of its    *)
(* own, then under every interleaving every call succeeds and, once all    *)
(* have returned, the root's file map holds exactly those names and the    *)
(* ones it held before, each written file holding its writer's payload.    *)
(***************************************************************************)
AllReturned == \A t \in Threads : th[t].pc = "done"

DistinctWriters ==
    /\ \A t \in Threads : th[t].op = "WriteFile" /\ Len(Split(th[t].path)) = 1
    /\ \A t, u \in Threads : t # u => th[t].path # th[u].path

WritersOutcome ==
    /\ \A t \in Threads : th[t].err = Nil
    /\ DOMAIN dnode[Root].files =
           DOMAIN tree0.d[Root].files \cup {th[t].path : t \in Threads}
    /\ \A t \in Threads : fnode[dnode[Root].files[th[t].path]].content.bytes = th[t].data
    /\ \A x \in DOMAIN tree0.d[Root].files :
           /\ dnode[Root].files[x] = tree0.d[Root].files[x]
           /\ (\A t \in Threads : th[t].path # x)
                  => fnode[dnode[Root].files[x]] = tree0.f[tree0.d[Root].files[x]]

ConcurrentWritersAnyMode == (AllReturned /\ DistinctWriters) => WritersOutcome

\* C9 as amended: the same, when each writer whose name already names a file
\* passes a mode that the file's overwrite accepts.
ModesAccepted ==
    \A t \in Threads :
        th[t].path \in DOMAIN tree0.d[Root].files => ValidMode(th[t].perm)

ConcurrentWriters ==
    (AllReturned /\ DistinctWriters /\ ModesAccepted) => WritersOutcome

\* two writers have returned, one of which overwrote a file that was there
ConcurrentWritersWitness ==
    /\ AllReturned
    /\ DistinctWriters
    /\ ModesAccepted
    /\ Cardinality(DOMAIN tree0.d[Root].files) = 1
    /\ Cardinality(DOMAIN dnode[Root].files) = NThreads
    /\ WritersOutcome

(***************************************************************************)
(* C10: lock discipline.  At every point of every operation the thread     *)
(* holds the lock of at most one node, and it holds no lock when it calls  *)
(* into a child node.                                                      *)
(***************************************************************************)
\* the thread is in a call on a node below the one it was called on
InChild(t) == th[t].pc \notin {"idle", "done", "return"} /\ th[t].d # Root

LockDiscipline ==
    \A t \in Threads :
        /\ Len(th[t].locks) <= 1
        /\ InChild(t) => \A i \in 1..Len(th[t].locks) :
                             th[t].locks[i].lock = DirLock(th[t].d)

(***************************************************************************)
(* C11: deadlock freedom.  With reader/writer locks in which a waiting     *)
(* writer blocks new readers, no reachable state has every unfinished      *)
(* thread blocked on a lock, and under fair scheduling every started       *)
(* operation eventually returns.                                           *)
(***************************************************************************)
\* the thread is inside a call
Running(t) == th[t].pc \notin {"idle", "done"}

\* the scheduler lets every thread that is inside a call and can take a step
\* take one
SpecConcFair == SpecConc /\ \A t \in Threads : WF_vars(Running(t) /\ Step(t))

\* the thread is inside a call and no step of it is possible: it waits in
\* RLock() or Lock()
Blocked(t) == Running(t) /\ ~ENABLED Step(t)

DeadlockFree ==
    /\ [](\A t \in Threads : Running(t) => \E u \in Threads : Running(u) /\ ~Blocked(u))
    /\ \A t \in Threads : Running(t) ~> (th[t].pc = "done")

\* a writer waits in Lock() for a reader that holds the node's lock while it
\* works in a child of the node
DeadlockFreeWitness ==
    \E t, u \in Threads :
        /\ Blocked(t)
        /\ th[t].pc \in DOMAIN AfterLocked
        /\ HoldsLock(u, th[t].want, "R")
        /\ InChild(u)
        /\ ~Blocked(u)

(***************************************************************************)
(* C12: the tree only grows.  Across every step no node disappears, no     *)
(* directory's dirs map or files map loses a name, and a name stays bound  *)
(* to the same node; hence a path that getDir or getFile resolves is       *)
(* resolved, to the same node, after the step (and so in every later       *)
(* state).                                                                 *)
(***************************************************************************)
\* map m2 has every key of m1, bound to the same node
Extends(m1, m2) ==
    \A x \in DOMAIN m1 : x \in DOMAIN m2 /\ m2[x] = m1[x]

TreeOnlyGrows ==
    [][/\ Len(dnode') >= Len(dnode)
       /\ Len(fnode') >= Len(fnode)
       /\ \A d \in DirIds :
              /\ Extends(dnode[d].dirs, dnode'[d].dirs)
              /\ Extends(dnode[d].files, dnode'[d].files)
       /\ \A p \in Paths :
              /\ getDir(Heap, Root, p).err = Nil
                     => getDir(Heap', Root, p) = getDir(Heap, Root, p)
              /\ getFile(Heap, Root, p).err = Nil
                     => getFile(Heap', Root, p) = getFile(Heap, Root, p)]_vars

\* three calls have each added one node, the last of them a MkdirAll below a
\* directory that was there already, and a two-segment path resolves to a file
TreeOnlyGrowsWitness ==
    /\ nops = MaxOps
    /\ Len(dnode) + Len(fnode) = 1 + MaxOps
    /\ last.op = "MkdirAll"
    /\ last.err = Nil
    /\ Len(Split(last.path)) = 2
    /\ \E p \in Paths : Len(Split(p)) = 2 /\ AllSegmentsNamed(p)
                            /\ getFile(Heap, Root, p).err = Nil

(***************************************************************************)
(* C13: Open looks up a file before a directory.  For a path other than "" *)
(* and ".", Open returns a read handle on the file whenever getFile        *)
(* resolves the path, the directory node exactly when getFile does not     *)
(* resolve it and getDir does, and fs.ErrNotExist exactly when neither     *)
(* does; for "" and "." it returns the receiver itself.                    *)
(***************************************************************************)
\* what Open(p) on d returned, o, is what the lookup order prescribes
FileBeforeDir(h, d, p, o) ==
    LET f == getFile(h, d, p)
        g == getDir(h, d, p)
    IN IF p = StrEmpty \/ p = StrDot
       THEN o.err = Nil /\ o.file = DirHandle(d)
       ELSE /\ f.err = Nil => (o.err = Nil /\ o.file = openR(h, f.node))
            /\ (f.err # Nil /\ g.err = Nil) => (o.err = Nil /\ o.file = DirHandle(g.node))
            /\ (f.err # Nil /\ g.err # Nil) => (o.err = ErrNotExist /\ o.file = NoHandle)
            /\ o.file.kind = "dir" => (f.err # Nil /\ g.err = Nil)
            /\ o.err # Nil => (f.err # Nil /\ g.err # Nil)

OpenFileBeforeDir ==
    /\ \A p \in Paths : FileBeforeDir(Heap, Root, p, Open(Heap, Root, p))
    /\ last.op = "Open"
           => FileBeforeDir(Heap, Root, last.path, [file |-> last.file, err |-> last.err])

\* Open of a name that is both a file and a directory of the root returned
\* the file
OpenFileBeforeDirWitness ==
    /\ last.op = "Open"
    /\ last.path \in DOMAIN dnode[Root].files \cap DOMAIN dnode[Root].dirs
    /\ last.path \notin {StrEmpty, StrDot}
    /\ last.err = Nil
    /\ last.file.kind = "file"
    /\ last.file.node = dnode[Root].files[last.path]

(***************************************************************************)
(* C14: under every interleaving of concurrent MkdirAll and WriteFile      *)
(* calls, a step that inserts a new child directory under the name n of a  *)
(* node is taken only in a state in which n is not a key of that node's    *)
(* files map.                                                              *)
(***************************************************************************)
MkdirInsertsWhereNoFile ==
    [][\A d \in DirIds :
           \A n \in DOMAIN dnode'[d].dirs \ DOMAIN dnode[d].dirs :
               n \notin DOMAIN dnode[d].files]_vars

(***************************************************************************)
(* C15: a successful MkdirAll(p) leaves every directory it visits (the     *)
(* receiver and the directory of each segment of p but the last) with a    *)
(* modification time not earlier than the start of the call, whether the   *)
(* child for the next segment was created or was there; a directory of the *)
(* last segment that the call created has such a time too, one that was    *)
(* there keeps its own; and no step makes a directory's modification time  *)
(* decrease.                                                               *)
(***************************************************************************)
\* the directories MkdirAll(p) on the root stamps: the root and the
\* directory of every proper prefix of p
Visited(h, p) ==
    {WalkDirs(h, Root, SubSeq(Split(p), 1, k)) : k \in 0..(Len(Split(p)) - 1)}

MkdirStampsVisited ==
    [][/\ (last'.op = "MkdirAll" /\ last'.err = Nil)
            => LET leaf == WalkDirs(Heap', Root, Split(last'.path))
               IN /\ \A d \in Visited(Heap', last'.path) :
                         d # 0 /\ dnode'[d].info.modified >= now
                  /\ leaf # 0
                  /\ leaf > Len(dnode) => dnode'[leaf].info.modified >= now
                  /\ leaf <= Len(dnode) => dnode'[leaf].info = dnode[leaf].info
       /\ \A d \in DirIds : dnode'[d].info.modified >= dnode[d].info.modified]_vars

\* the second of two calls, a MkdirAll of two segments, has made one
\* directory, so the other was there: the root and the directory of the first
\* segment carry the times of this call
MkdirStampsVisitedWitness ==
    /\ nops = 2
    /\ Len(dnode) = 3
    /\ last.op = "MkdirAll"
    /\ last.err = Nil
    /\ Len(Split(last.path)) = 2
    /\ AllSegmentsNamed(last.path)
    /\ dnode[WalkDirs(Heap, Root, Split(last.path))].info.modified = now - 2
    /\ dnode[WalkDirs(Heap, Root, Front(Split(last.path)))].info.modified = now - 1
    /\ dnode[Root].info.modified = now - 3

(***************************************************************************)
(* C16: the names that a ReadDir("") running beside MkdirAll and WriteFile *)
(* calls on the same node returns are the names of the node's files and    *)
(* directories at one instant between the start of the call and its        *)
(* return, here the instant of the RUnlock of line 101: every child of     *)
(* that instant is listed, once per map it is in, and nothing else.        *)
(***************************************************************************)
\* thread t leaves the loops of ReadDir("") in this step
ReadDirReturns(t) == th[t].pc = "ReadDir:93" /\ th'[t].pc = "done"

ReadDirSnapshot ==
    [][\A t \in Threads :
           ReadDirReturns(t)
               => LET d == th[t].d
                      e == th'[t].entries
                  IN /\ {e[i].name : i \in 1..Len(e)}
                            = DOMAIN dnode[d].files \cup DOMAIN dnode[d].dirs
                     /\ Len(e) = Cardinality(DOMAIN dnode[d].files)
                                     + Cardinality(DOMAIN dnode[d].dirs)
                     /\ Cardinality({i \in 1..Len(e) : ~e[i].isDir})
                            = Cardinality(DOMAIN dnode[d].files)]_vars

\* a ReadDir("") has listed the children and still holds the node's read
\* lock, while a MkdirAll or WriteFile waits in Lock() to insert into the node
ReadDirSnapshotWitness ==
    \E t, u \in Threads :
        /\ th[t].op = "ReadDir"
        /\ th[t].pc = "ReadDir:93"
        /\ th[t].todoF = {}
        /\ th[t].todoD = {}
        /\ Len(th[t].acc) = 2
        /\ th[u].op \in {"MkdirAll", "WriteFile"}
        /\ th[u].want = DirLock(th[t].d)
        /\ Split(th[u].name)[1] \notin DOMAIN dnode[th[t].d].files \cup DOMAIN dnode[th[t].d].dirs

(***************************************************************************)
(* C17: no lost update between concurrent MkdirAll calls.  When two        *)
(* threads call MkdirAll on two-segment paths with the same first segment  *)
(* on a tree in which that segment names nothing, then under every         *)
(* interleaving, once both have returned, both calls have succeeded, one   *)
(* directory node has been made for the shared segment and one for each    *)
(* distinct last segment, and both leaf directories are children of that   *)
(* one node.                                                               *)
(***************************************************************************)
\* every thread calls MkdirAll with a two-segment path, all with the same
\* first segment, which names nothing in the tree the run starts from
SharedPrefixMkdirs ==
    /\ \A t \in Threads : th[t].op = "MkdirAll" /\ Len(Split(th[t].path)) = 2
    /\ \A t, u \in Threads : Split(th[t].path)[1] = Split(th[u].path)[1]
    /\ \A t \in Threads :
           Split(th[t].path)[1] \notin
               DOMAIN tree0.d[Root].dirs \cup DOMAIN tree0.d[Root].files

SharedPrefixOutcome ==
    LET prefix == Split(th[1].path)[1]
        leaves == {Split(th[t].path)[2] : t \in Threads}
    IN /\ \A t \in Threads : th[t].err = Nil
       /\ Len(dnode) = Len(tree0.d) + 1 + Cardinality(leaves)
       /\ prefix \in DOMAIN dnode[Root].dirs
       /\ DOMAIN dnode[dnode[Root].dirs[prefix]].dirs = leaves
       /\ DOMAIN dnode[Root].dirs = DOMAIN tree0.d[Root].dirs \cup {prefix}

ConcurrentMkdirs == (AllReturned /\ SharedPrefixMkdirs) => SharedPrefixOutcome

\* both calls have returned, each has made its own leaf, and the root was
\* stamped for the last time before either leaf was made: the calls overlapped
ConcurrentMkdirsWitness ==
    /\ AllReturned
    /\ SharedPrefixMkdirs
    /\ SharedPrefixOutcome
    /\ th[1].path # th[2].path
    /\ \A t \in Threads :
           dnode[Root].info.modified
               < dnode[WalkDirs(Heap, Root, Split(th[t].path))].info.modified

(***************************************************************************)
(* C18: a failing MkdirAll is not rolled back.  When MkdirAll(p) returns   *)
(* fs.ErrExist because segment k > 1 of p names a file, the directories of *)
(* segments 1..k-1 exist afterwards, carrying the modification times the   *)
(* call gave them and to the root, no directory has been made for segment  *)
(* k or beyond, and what the call left stays in every later step.          *)
(***************************************************************************)
\* the segments k > 1 of p at which MkdirAll(p) on the root of h finds a file
FileSegments(h, p) ==
    {k \in 2..Len(Split(p)) :
        LET parent == WalkDirs(h, Root, SubSeq(Split(p), 1, k - 1))
        IN /\ parent # 0
           /\ Split(p)[k] \in DOMAIN h.d[parent].files
           /\ \A j \in 1..(k - 1) :
                  Split(p)[j] \notin
                      DOMAIN h.d[WalkDirs(h, Root, SubSeq(Split(p), 1, j - 1))].files}

MkdirFailureKept ==
    [][/\ (last'.op = "MkdirAll" /\ last'.err = ErrExist
               /\ ~HasFile(Heap, Root, Split(last'.path)[1]))
            => \E k \in FileSegments(Heap', last'.path) :
                   LET segs == Split(last'.path)
                       parent == WalkDirs(Heap', Root, SubSeq(segs, 1, k - 1))
                   IN /\ \A j \in 0..(k - 1) :
                             LET d == WalkDirs(Heap', Root, SubSeq(segs, 1, j))
                             IN /\ d # 0
                                /\ j < k - 1 => dnode'[d].info.modified >= now
                      /\ \A d \in 1..Len(dnode') :
                             d > Len(dnode)
                                 => \E j \in 1..(k - 1) :
                                        d = WalkDirs(Heap', Root, SubSeq(segs, 1, j))
                      /\ parent <= Len(dnode) => dnode'[parent] = dnode[parent]
                      /\ fnode' = fnode
       /\ \A d \in DirIds :
              /\ Extends(dnode[d].dirs, dnode'[d].dirs)
              /\ Extends(dnode[d].files, dnode'[d].files)]_vars

\* MkdirAll failed at its second segment, a file, after it stamped the root
MkdirFailureKeptWitness ==
    /\ last.op = "MkdirAll"
    /\ last.err = ErrExist
    /\ FileSegments(Heap, last.path) = {2}
    /\ AllSegmentsNamed(last.path)
    /\ dnode[Root].info.modified = now - 1
    /\ fnode[FileAt(Heap, last.path)].info.modified < dnode[Root].info.modified

(***************************************************************************)
(* C19: MkdirAll is idempotent on the shape of the tree.  As claimed: a    *)
(* MkdirAll(p, mode2) called when every segment of p names a directory     *)
(* succeeds, makes no node, and leaves the files and, but for their        *)
(* modification times, the directories as they were: names, modes and      *)
(* child maps.                                                             *)
(***************************************************************************)
\* directory node x but for its modification time
Unstamped(x) == [x EXCEPT !.info.modified = 0]

MkdirIdempotent ==
    [][(/\ last'.op = "MkdirAll"
        /\ WalkDirs(Heap, Root, Split(last'.path)) # 0)
          => (/\ last'.err = Nil
              /\ Len(dnode') = Len(dnode)
              /\ fnode' = fnode
              /\ \A d \in DirIds : Unstamped(dnode'[d]) = Unstamped(dnode[d]))]_vars

(***************************************************************************)
(* C20: the frame of WriteFile.  A WriteFile call, successful or not,      *)
(* makes no directory, changes no directory's dirs map and no directory's  *)
(* metadata (the parent's modification time included), and changes at most *)
(* one entry of one files map: the entry of the last segment in the        *)
(* directory that the segments before it lead to.  Every other entry, and  *)
(* every file but that one, is as it was.                                  *)
(***************************************************************************)
WriteFileFrame ==
    [][last'.op = "WriteFile"
         => LET segs == Split(last'.path)
                parent == WalkDirs(Heap, Root, Front(segs))
            IN /\ Len(dnode') = Len(dnode)
               /\ \A d \in DirIds :
                      /\ dnode'[d].dirs = dnode[d].dirs
                      /\ dnode'[d].info = dnode[d].info
                      /\ d # parent => dnode'[d].files = dnode[d].files
                      /\ Extends(dnode[d].files, dnode'[d].files)
                      /\ DOMAIN dnode'[d].files \subseteq DOMAIN dnode[d].files \cup {Final(segs)}
               /\ Len(fnode') <= Len(fnode) + 1
               /\ \A x \in FileIds : x # FileAt(Heap, last'.path) => fnode'[x] = fnode[x]]_vars

\* a WriteFile has stored a new file in a directory below the root, whose
\* modification time is still that of the MkdirAll before it
WriteFileFrameWitness ==
    /\ last.op = "WriteFile"
    /\ last.err = Nil
    /\ Len(Split(last.path)) = 2
    /\ AllSegmentsNamed(last.path)
    /\ FileAt(Heap, last.path) = Len(fnode)
    /\ fnode[Len(fnode)].info.modified = now - 1
    /\ dnode[WalkDirs(Heap, Root, Front(Split(last.path)))].info.modified < now - 1
    /\ dnode[Root].info.modified < now - 1

====
